---- MODULE Spec2Model ----
(***************************************************************************)
(* Flashcard maker (src/index.tsx): the card list, its single-slot undo,   *)
(* multi-select batch delete, search filter, drag reorder, persistence and *)
(* the asynchronous generation request, modelled as a state machine; the   *)
(* response parser and the search filter are also exercised on their own   *)
(* over bounded inputs.                                                    *)
(*                                                                         *)
(* A JavaScript string is a sequence of one-character strings.  A nullable *)
(* value (T | null) is a sequence of length 0 (null) or 1 (the value).     *)
(***************************************************************************)
EXTENDS Integers, Sequences, FiniteSets, TLC

\* ---------------------------------------------------------------- bounds
\* Text replacements the user types into editable cards in one run.
MaxTyping == 1
\* Longest raw response text handed to the parser in SpecParse.
MaxTextLen == 5
\* Longest list of pairs in the round-trip inputs of SpecParse.
MaxPairs == 2
\* Longest term / definition of the card handed to the filter in SpecFilter.
MaxCardText == 1
\* Longest search query handed to the filter in SpecFilter.
MaxQueryLen == 3
\* Longest stored array found at startup in SpecLoad.
MaxStored == 2

\* ------------------------------------------------------------ characters
NL == "\n"
TAB == "\t"
SP == " "
COLON == ":"

\* The characters String.prototype.trim removes, among those modelled.
IsWhitespace(c) == c \in {SP, TAB, NL}

\* ------------------------------------------------------- string functions
RECURSIVE TrimStart(_)
\* String.prototype.trimStart, the leading half of trim().
TrimStart(s) ==
  IF s = <<>> THEN <<>>
  ELSE IF IsWhitespace(Head(s)) THEN TrimStart(Tail(s)) ELSE s

RECURSIVE TrimEnd(_)
\* String.prototype.trimEnd, the trailing half of trim().
TrimEnd(s) ==
  IF s = <<>> THEN <<>>
  ELSE IF IsWhitespace(s[Len(s)]) THEN TrimEnd(SubSeq(s, 1, Len(s) - 1)) ELSE s

\* String.prototype.trim.
Trim(s) == TrimEnd(TrimStart(s))

RECURSIVE SplitAcc(_, _, _)
\* Scans s left to right; cur is the part being collected.
SplitAcc(s, sep, cur) ==
  IF s = <<>> THEN <<cur>>
  ELSE IF Head(s) = sep THEN <<cur>> \o SplitAcc(Tail(s), sep, <<>>)
  ELSE SplitAcc(Tail(s), sep, Append(cur, Head(s)))

\* String.prototype.split with a one-character separator: n separators give
\* n + 1 parts, the empty string gives one empty part.
Split(s, sep) == SplitAcc(s, sep, <<>>)

RECURSIVE JoinNoSeparator(_, _)
\* A variant of join that drops the separator.
JoinNoSeparator(parts, sep) ==
  IF parts = <<>> THEN <<>>
  ELSE parts[1] \o JoinNoSeparator(Tail(parts), sep)

RECURSIVE Join(_, _)
\* Array.prototype.join with a one-character separator.
Join(parts, sep) ==
  IF parts = <<>> THEN <<>>
  ELSE IF Len(parts) = 1 THEN parts[1]
  ELSE parts[1] \o <<sep>> \o Join(Tail(parts), sep)

\* ---------------------------------------------------------------- cards
Card(t, d) == [term |-> t, definition |-> d]

\* ------------------------------------------------------- response parser
\* A variant of the callback that takes the definition from the second part
\* only, dropping what follows a later colon.
ParseLineSecondPart(line) ==
  LET parts == Split(line, COLON) IN
  IF Len(parts) >= 2 /\ Trim(parts[1]) # <<>>
  THEN LET term == Trim(parts[1])
           definition == Trim(parts[2])
       IN IF definition # <<>> THEN <<Card(term, definition)>> ELSE <<>>
  ELSE <<>>

\* The callback of .map((line) => ...): the card of one line, or null.
ParseLine(line) ==
  LET parts == Split(line, COLON) IN
  IF Len(parts) >= 2 /\ Trim(parts[1]) # <<>>
  THEN LET term == Trim(parts[1])
           definition == Trim(Join(Tail(parts), COLON))
       IN IF definition # <<>> THEN <<Card(term, definition)>> ELSE <<>>
  ELSE <<>>

RECURSIVE FilterNotNull(_)
\* .filter((card) => card !== null) over a sequence of nullable cards.
FilterNotNull(xs) ==
  IF xs = <<>> THEN <<>>
  ELSE IF Head(xs) = <<>> THEN FilterNotNull(Tail(xs))
  ELSE <<Head(xs)[1]>> \o FilterNotNull(Tail(xs))

\* responseText.split('\n').map(...).filter(...)
ParseResponse(text) ==
  LET lines == Split(text, NL) IN
  FilterNotNull([i \in 1..Len(lines) |-> ParseLine(lines[i])])

\* --------------------------------------------------------- search filter
\* String.prototype.toLowerCase on the modelled alphabet.
ToLowerCase(s) ==
  [i \in 1..Len(s) |->
     IF s[i] = "A" THEN "a" ELSE IF s[i] = "B" THEN "b" ELSE s[i]]

\* String.prototype.includes.
Includes(text, word) ==
  \E i \in 0..(Len(text) - Len(word)) :
     SubSeq(text, i + 1, i + Len(word)) = word

\* searchBar.value.trim().toLowerCase().split(' ').filter(word => word.length > 0)
SearchWords(value) ==
  SelectSeq(Split(ToLowerCase(Trim(value)), SP), LAMBDA word : Len(word) > 0)

\* A variant of isVisible that is satisfied by any one of the words.
IsVisibleAnyWord(card, value) ==
  LET searchWords == SearchWords(value)
      cardText == ToLowerCase(card.term \o <<SP>> \o card.definition)
  IN IF Len(searchWords) > 0
     THEN \E k \in 1..Len(searchWords) : Includes(cardText, searchWords[k])
     ELSE TRUE

\* The body of the forEach of applySearchFilter: isVisible for one card.
IsVisible(card, value) ==
  LET searchWords == SearchWords(value)
      cardText == ToLowerCase(card.term \o <<SP>> \o card.definition)
  IN IF Len(searchWords) > 0
     THEN \A k \in 1..Len(searchWords) : Includes(cardText, searchWords[k])
     ELSE TRUE

\* ================================================================ state
VARIABLES
  currentFlashcards,     \* let currentFlashcards: Flashcard[]
  previousState,         \* let previousState: Flashcard[] | null
  isMultiSelectMode,     \* let isMultiSelectMode
  selectedCards,         \* let selectedCards = new Set<number>() (0-based)
  container,             \* flashcardsContainer: its .flashcard children, in DOM order
  searchBar,             \* searchBar.value
  flashcardCounter,      \* flashcardCounter: null when hidden, else <<visible, total>>
  controlsShown,         \* controlsContainer / searchBar / selectButton displayed
  storage,               \* localStorage[FLASHCARDS_LOCAL_STORAGE_KEY]: null or the item
  undoDisabled,          \* undoButton.disabled (and hidden)
  deleteSelectedDisabled,\* deleteSelectedButton.disabled (and hidden)
  generateDisabled,      \* generateButton.disabled
  inFlight,              \* generateContent requests awaiting their result
  dragSource,            \* "none", "attached" (an element has class dragging),
                         \* "detached" (the dragged element left the container)
  typed,                 \* keystrokes spent editing card text (bounded)
  last,                  \* history: the last handler that changed the state
  hist,                  \* history: what the user did, for stating the properties
  tracked,               \* which parts of hist this specification keeps
  pText, pPairs, pCards, \* SpecParse: a response text, the pairs it was written
                         \* from (if any), null or the parser's result
  fCard, fQuery, fVisible \* SpecFilter: a card, a query, null or the filter's verdict

progVars == <<currentFlashcards, previousState, isMultiSelectMode, selectedCards,
              container, searchBar, flashcardCounter, controlsShown, storage,
              undoDisabled, deleteSelectedDisabled, generateDisabled,
              inFlight, dragSource, typed, last, hist, tracked>>
parseVars == <<pText, pPairs, pCards>>
filterVars == <<fCard, fQuery, fVisible>>
vars == <<progVars, parseVars, filterVars>>

\* The mutable state the synchronous helper functions read and write.
St == [currentFlashcards |-> currentFlashcards,
       previousState |-> previousState,
       isMultiSelectMode |-> isMultiSelectMode,
       selectedCards |-> selectedCards,
       container |-> container,
       searchBar |-> searchBar,
       flashcardCounter |-> flashcardCounter,
       controlsShown |-> controlsShown,
       storage |-> storage,
       setItemCalls |-> 0,
       undoDisabled |-> undoDisabled,
       deleteSelectedDisabled |-> deleteSelectedDisabled]

\* The state a handler leaves behind.
Becomes(s) ==
  /\ currentFlashcards' = s.currentFlashcards
  /\ previousState' = s.previousState
  /\ isMultiSelectMode' = s.isMultiSelectMode
  /\ selectedCards' = s.selectedCards
  /\ container' = s.container
  /\ searchBar' = s.searchBar
  /\ flashcardCounter' = s.flashcardCounter
  /\ controlsShown' = s.controlsShown
  /\ storage' = s.storage
  /\ undoDisabled' = s.undoDisabled
  /\ deleteSelectedDisabled' = s.deleteSelectedDisabled

\* ------------------------------------------------------ helper functions
\* updateUndoButtonState()
updateUndoButtonState(s) ==
  [s EXCEPT !.undoDisabled = (s.previousState = <<>>)]

\* updateFlashcardCount()
updateFlashcardCount(s) ==
  LET totalCards == Len(s.currentFlashcards)
      visibleCards ==
        Cardinality({i \in 1..Len(s.container) : ~s.container[i].hidden})
  IN IF totalCards = 0
     THEN [s EXCEPT !.flashcardCounter = <<>>]
     ELSE [s EXCEPT !.flashcardCounter = <<<<visibleCards, totalCards>>>>]

\* A variant that keeps an existing snapshot (a stack-like undo that never
\* overwrites).
savePreviousStateKeepFirst(s) ==
  updateUndoButtonState(
    [s EXCEPT !.previousState =
       IF s.previousState = <<>> THEN <<s.currentFlashcards>> ELSE @])

\* savePreviousState(): a deep copy of the list into the undo slot.
savePreviousState(s) ==
  updateUndoButtonState([s EXCEPT !.previousState = <<s.currentFlashcards>>])

\* updateDeleteSelectedButtonState()
updateDeleteSelectedButtonState(s) ==
  [s EXCEPT !.deleteSelectedDisabled = (Cardinality(s.selectedCards) = 0)]

\* toggleCardSelection(index): the element is found by DOM position.
toggleCardSelection(s, index) ==
  IF index + 1 > Len(s.container) THEN s
  ELSE updateDeleteSelectedButtonState(
         [s EXCEPT !.selectedCards =
            IF index \in @ THEN @ \ {index} ELSE @ \cup {index}])

\* The text a div shows after textContent = flashcard[name]: the property's
\* string, or no text when the object has no such property (undefined).
TextContent(flashcard, name) ==
  IF name \in DOMAIN flashcard THEN flashcard[name] ELSE <<>>

\* One .flashcard element as displayFlashcards builds it.  index and flashcard
\* are the values its listeners close over; term and definition are the text
\* of termDiv and definitionDiv.
NewElement(index, flashcard, multi) ==
  [index |-> index,
   flashcard |-> flashcard,
   term |-> TextContent(flashcard, "term"),
   definition |-> TextContent(flashcard, "definition"),
   editing |-> FALSE,
   originalCardState |-> <<>>,
   hidden |-> FALSE,
   draggable |-> ~multi,
   dragging |-> FALSE]

\* displayFlashcards(flashcards)
displayFlashcards(s, flashcards) ==
  updateFlashcardCount(
    [s EXCEPT
       !.currentFlashcards = flashcards,
       !.container = [i \in 1..Len(flashcards) |->
                        NewElement(i - 1, flashcards[i], s.isMultiSelectMode)],
       !.controlsShown = (Len(flashcards) > 0),
       !.searchBar = IF Len(flashcards) > 0 THEN @ ELSE <<>>])

\* JSON.stringify(flashcards), kept as the value JSON.parse gives back.
Stringify(flashcards) == [json |-> flashcards]

\* saveFlashcards(flashcards).  setItem is taken to succeed: when it throws, the
\* catch only logs and the stored item stays as it was.
\* A variant of saveFlashcards that writes the list as it is before the call
\* instead of its argument.
saveFlashcardsCurrent(s, flashcards) ==
  [s EXCEPT !.setItemCalls = @ + 1,
            !.storage = <<Stringify(s.currentFlashcards)>>]

saveFlashcards(s, flashcards) ==
  [s EXCEPT !.setItemCalls = @ + 1,
            !.storage = <<Stringify(flashcards)>>]

\* applySearchFilter(): card i of the list decides the class of the i-th
\* element of the container, when there is one.
applySearchFilter(s) ==
  updateFlashcardCount(
    [s EXCEPT !.container =
       [i \in 1..Len(@) |->
          IF i <= Len(s.currentFlashcards)
          THEN [@[i] EXCEPT !.hidden =
                  ~IsVisible(s.currentFlashcards[i], s.searchBar)]
          ELSE @[i]]])

\* The value of an out-of-range array read.
Undefined == [undefined |-> TRUE]

\* A variant of updateOrderAndSave that takes no snapshot.
updateOrderAndSaveNoSnapshot(s) ==
  LET newFlashcards ==
        [i \in 1..Len(s.container) |->
           LET originalIndex == s.container[i].index IN
           IF originalIndex + 1 <= Len(s.currentFlashcards)
           THEN s.currentFlashcards[originalIndex + 1]
           ELSE Undefined]
  IN saveFlashcards(applySearchFilter(displayFlashcards(s, newFlashcards)),
                    newFlashcards)

\* updateOrderAndSave()
updateOrderAndSave(s) ==
  LET s1 == savePreviousState(s)
      newFlashcards ==
        [i \in 1..Len(s1.container) |->
           LET originalIndex == s1.container[i].index IN
           IF originalIndex + 1 <= Len(s1.currentFlashcards)
           THEN s1.currentFlashcards[originalIndex + 1]
           ELSE Undefined]
  IN saveFlashcards(applySearchFilter(displayFlashcards(s1, newFlashcards)),
                    newFlashcards)

\* An element leaves edit mode: exitEditMode(currentTerm).
exitEditMode(el) ==
  [el EXCEPT !.editing = FALSE, !.originalCardState = <<>>]

\* A variant of saveAndEndEditing without the changed-value test: every
\* commit snapshots and saves.
saveAndEndEditingAlways(s, pos) ==
  LET el == s.container[pos]
      index == el.index
      newTerm == Trim(el.term)
      newDef == Trim(el.definition)
      s1 == savePreviousState(s)
      s2 == [s1 EXCEPT !.currentFlashcards[index + 1] = Card(newTerm, newDef)]
      s3 == saveFlashcards(s2, s2.currentFlashcards)
  IN IF ~el.editing THEN s
     ELSE [s3 EXCEPT !.container[pos] = exitEditMode(@)]

\* saveAndEndEditing() of the element at DOM position pos.
saveAndEndEditing(s, pos) ==
  LET el == s.container[pos]
      index == el.index
      newTerm == Trim(el.term)
      newDef == Trim(el.definition)
      s1 == savePreviousState(s)
      s2 == [s1 EXCEPT !.currentFlashcards[index + 1] = Card(newTerm, newDef)]
      s3 == saveFlashcards(s2, s2.currentFlashcards)
      done == IF \/ s.currentFlashcards[index + 1].term # newTerm
                 \/ s.currentFlashcards[index + 1].definition # newDef
              THEN s3 ELSE s
  IN IF ~el.editing THEN s
     ELSE [done EXCEPT !.container[pos] = exitEditMode(@)]

\* cancelEditing() of the element at DOM position pos.
cancelEditing(s, pos) ==
  LET el == s.container[pos] IN
  IF el.originalCardState # <<>>
  THEN [s EXCEPT !.container[pos] =
          exitEditMode([@ EXCEPT !.term = el.originalCardState[1].term,
                                 !.definition = el.originalCardState[1].definition])]
  ELSE s

\* list.filter((_, i) => !indices.has(i)), i 0-based.
FilterOutIndices(list, indices) ==
  LET F[n \in 0..Len(list)] ==
        IF n = 0 THEN <<>>
        ELSE IF (n - 1) \notin indices THEN Append(F[n - 1], list[n]) ELSE F[n - 1]
  IN F[Len(list)]

\* A stored item is the text setItem was given.  It is kept as what JSON.parse
\* makes of it: [json |-> array] for the text of an array, [value |-> kind] for
\* the text of another truthy value that has no length (an object, a number,
\* true), [text |-> ...] for a text JSON.parse throws on.
Unparseable == [text |-> "not json"]
Parseable(item) == "text" \notin DOMAIN item

\* loadFlashcards(): the value returned (null or the parsed value, whatever it
\* is) and the storage it leaves.
loadFlashcards(item) ==
  IF item = <<>> THEN [result |-> <<>>, storage |-> item]
  ELSE IF Parseable(item[1]) THEN [result |-> <<item[1]>>, storage |-> item]
  ELSE [result |-> <<>>, storage |-> <<>>]

\* value.length > 0 for a parsed value: only an array has a length.
LengthPositive(value) == "json" \in DOMAIN value /\ Len(value.json) > 0

\* The state before the module's initialization code runs, given the stored
\* item and the markup: the declarations' initial values and an empty
\* container.
Loading(item, markupHides) ==
  [currentFlashcards |-> <<>>,
   previousState |-> <<>>,
   isMultiSelectMode |-> FALSE,
   selectedCards |-> {},
   container |-> <<>>,
   searchBar |-> <<>>,
   flashcardCounter |-> <<>>,
   controlsShown |-> ~markupHides,
   storage |-> item,
   setItemCalls |-> 0,
   undoDisabled |-> markupHides,
   deleteSelectedDisabled |-> markupHides]

\* App Initialization: loadFlashcards(), then displayFlashcards of what it
\* returned when that is truthy and has a positive length.
AppInitialization(s) ==
  LET loaded == loadFlashcards(s.storage)
      initialFlashcards == loaded.result
      s1 == [s EXCEPT !.storage = loaded.storage]
  IN IF initialFlashcards # <<>> /\ LengthPositive(initialFlashcards[1])
     THEN displayFlashcards(s1, initialFlashcards[1].json)
     ELSE s1

\* ================================================================ inputs
\* The card list found in storage at startup, when there is one.
StoredCards ==
  <<Card(<<"a">>, <<"b">>), Card(<<"b">>, <<"c">>)>>

\* What localStorage may hold for the key at startup.
InitialItems == {<<>>, <<Stringify(StoredCards)>>, <<Stringify(<<>>)>>, <<Unparseable>>}

\* The texts the generation service may answer with: one valid line after an
\* invalid one, no valid line, the empty text.
Responses ==
  { <<"x", NL, "c", COLON, SP, "b">>,
    <<"a", SP, "b">>,
    <<>> }

\* What the user may enter as topic.
Topics == {<<>>, <<SP>>, <<"t">>}

\* What the user may enter in the search bar.
Queries == {<<>>, <<"A">>}

\* What the user may leave in an editable term or definition.
EditTexts == {<<>>, <<SP, "a">>}

\* ================================================================= Init
\* hist.ops: destructive operations since the last undo click (2 for two or
\* more); hist.before: the list the latest of them started from; hist.undone:
\* hist.ops as the last undo click found it, until the next destructive
\* operation; hist.freshGeneration: a generation has replaced the list and no
\* destructive operation has followed; hist.picked: the cards the user has
\* ticked and not unticked in the current multi-select session; hist.dirty: a
\* destructive operation has occurred since the last undo click and the last
\* accepted generate click.
NoHistory == [ops |-> 0, before |-> <<>>, undone |-> 0, freshGeneration |-> FALSE,
              picked |-> {}, dirty |-> FALSE]

ParseIdle == pText = <<>> /\ pPairs = <<>> /\ pCards = <<>>
FilterIdle == fCard = Card(<<>>, <<>>) /\ fQuery = <<>> /\ fVisible = <<>>

\* The state after the module's top-level code has run: the listeners are
\* attached and the stored list, if any, is displayed.  The markup is not part
\* of the source: it declares the undo, delete-selected and list controls
\* either hidden and disabled (markupHides) or usable.
InitTracking(parts, items) ==
  \E item \in items, markupHides \in BOOLEAN :
    LET s == AppInitialization(Loading(item, markupHides))
    IN /\ currentFlashcards = s.currentFlashcards
       /\ previousState = s.previousState
       /\ isMultiSelectMode = s.isMultiSelectMode
       /\ selectedCards = s.selectedCards
       /\ container = s.container
       /\ searchBar = s.searchBar
       /\ flashcardCounter = s.flashcardCounter
       /\ controlsShown = s.controlsShown
       /\ storage = s.storage
       /\ undoDisabled = s.undoDisabled
       /\ deleteSelectedDisabled = s.deleteSelectedDisabled
       /\ generateDisabled = FALSE
       /\ inFlight = 0
       /\ dragSource = "none"
       /\ typed = 0
       /\ last = [op |-> "init", setItemCalls |-> 0]
       /\ hist = NoHistory
       /\ tracked = parts

Init == InitTracking({}, InitialItems) /\ ParseIdle /\ FilterIdle
\* The same program, with the undo history kept.
InitUndoHistory == InitTracking({"undo"}, InitialItems) /\ ParseIdle /\ FilterIdle
\* The same program, with the latest generation kept.
InitGenerationHistory ==
  InitTracking({"generation"}, InitialItems) /\ ParseIdle /\ FilterIdle
\* The same program, with the need for a snapshot kept.
InitSnapshotHistory ==
  InitTracking({"snapshot"}, InitialItems) /\ ParseIdle /\ FilterIdle
\* The same program, with the user's picks kept.
InitPickHistory == InitTracking({"picks"}, InitialItems) /\ ParseIdle /\ FilterIdle

\* ============================================================== handlers
\* No drag gesture is in progress.
NoDrag == dragSource = "none"
\* No card is in edit mode, except possibly the one at DOM position pos.
NoEditBut(pos) ==
  \A j \in 1..Len(container) : j # pos => ~container[j].editing
\* The user is free to use a control: a drag gesture captures the pointer, and
\* leaving an editable card blurs it, which commits the edit first.
UserIdle == NoDrag /\ NoEditBut(0)

\* A destructive operation is recorded: before is the list it started from.
Destroyed(h) ==
  IF "undo" \in tracked
  THEN [h EXCEPT !.ops = IF @ < 2 THEN @ + 1 ELSE 2,
                 !.before = <<currentFlashcards>>,
                 !.undone = 0]
  ELSE IF "generation" \in tracked
  THEN [h EXCEPT !.freshGeneration = FALSE]
  ELSE IF "snapshot" \in tracked
  THEN [h EXCEPT !.dirty = TRUE]
  ELSE h

\* An undo click is recorded.
Undone(h) ==
  IF "undo" \in tracked
  THEN [h EXCEPT !.ops = 0, !.before = <<>>, !.undone = h.ops]
  ELSE IF "snapshot" \in tracked
  THEN [h EXCEPT !.dirty = FALSE]
  ELSE h

\* An accepted generate click is recorded.
Triggered(h) ==
  IF "snapshot" \in tracked THEN [h EXCEPT !.dirty = FALSE] ELSE h

\* A generation that replaced the list is recorded.
Generated(h) ==
  IF "generation" \in tracked THEN [h EXCEPT !.freshGeneration = TRUE] ELSE h

\* The user's picks become the set cards.
Picks(h, cards) ==
  IF "picks" \in tracked THEN [h EXCEPT !.picked = cards] ELSE h

\* The handler op ran.  When it got past its guards (effect) it left state s
\* and last names it and the number of setItem calls it made; otherwise it
\* returned early, which is a stuttering step.
Handled(op, s, effect) ==
  /\ Becomes(IF effect THEN s ELSE St)
  /\ last' = IF effect THEN [op |-> op, setItemCalls |-> s.setItemCalls] ELSE last
  /\ UNCHANGED <<tracked, parseVars, filterVars>>

\* searchBar 'input' listener.
SearchInput(value) ==
  /\ UserIdle /\ controlsShown
  /\ Handled("search", applySearchFilter([St EXCEPT !.searchBar = value]), TRUE)
  /\ UNCHANGED <<generateDisabled, inFlight, dragSource, typed, hist>>

\* A variant of the undo listener that leaves the snapshot in its slot.
undoKeepsSnapshot(s) ==
  IF s.previousState # <<>>
  THEN LET snapshot == s.previousState[1]
           s1 == displayFlashcards(s, snapshot)
           s2 == saveFlashcards(s1, snapshot)
           s3 == applySearchFilter(s2)
       IN updateUndoButtonState(s3)
  ELSE s

\* The body of the undoButton 'click' listener.
undo(s) ==
  IF s.previousState # <<>>
  THEN LET snapshot == s.previousState[1]
           s1 == displayFlashcards(s, snapshot)
           s2 == saveFlashcards(s1, snapshot)
           s3 == applySearchFilter(s2)
       IN updateUndoButtonState([s3 EXCEPT !.previousState = <<>>])
  ELSE s

\* undoButton 'click' listener.  A click with nothing to undo is recorded too.
UndoClick ==
  /\ UserIdle /\ ~undoDisabled
  /\ Handled("undo", undo(St), TRUE)
  /\ hist' = Undone(hist)
  /\ UNCHANGED <<generateDisabled, inFlight, dragSource, typed>>

\* selectButton 'click' listener.
\* A variant of the select handler that keeps the selection when the mode is
\* turned off.
SelectClickKeepsSelection ==
  /\ UserIdle /\ controlsShown
  /\ LET s1 == [St EXCEPT !.isMultiSelectMode = ~@]
     IN Handled("select", displayFlashcards(s1, s1.currentFlashcards), TRUE)
  /\ hist' = IF isMultiSelectMode THEN Picks(hist, {}) ELSE hist
  /\ UNCHANGED <<generateDisabled, inFlight, dragSource, typed>>

SelectClick ==
  /\ UserIdle /\ controlsShown
  /\ LET s1 == [St EXCEPT !.isMultiSelectMode = ~@]
         s2 == IF s1.isMultiSelectMode THEN s1
               ELSE updateDeleteSelectedButtonState([s1 EXCEPT !.selectedCards = {}])
     IN Handled("select", displayFlashcards(s2, s2.currentFlashcards), TRUE)
  /\ hist' = IF isMultiSelectMode THEN Picks(hist, {}) ELSE hist
  /\ UNCHANGED <<generateDisabled, inFlight, dragSource, typed>>

\* The body of the deleteSelectedButton 'click' listener, confirm() accepted.
deleteSelected(s) ==
  LET s1 == savePreviousState(s)
      updatedFlashcards ==
        FilterOutIndices(s1.currentFlashcards, s1.selectedCards)
      s2 == updateDeleteSelectedButtonState(
              [s1 EXCEPT !.isMultiSelectMode = FALSE, !.selectedCards = {}])
  IN displayFlashcards(saveFlashcards(s2, updatedFlashcards), updatedFlashcards)

\* deleteSelectedButton 'click' listener.
DeleteSelectedClick(confirmed) ==
  /\ UserIdle /\ ~deleteSelectedDisabled
  /\ LET acts == Cardinality(selectedCards) # 0 /\ confirmed IN
     /\ Handled("deleteSelected", deleteSelected(St), acts)
     /\ hist' = IF acts THEN Picks(Destroyed(hist), {}) ELSE hist
  /\ UNCHANGED <<generateDisabled, inFlight, dragSource, typed>>

\* A re-render or a clearing of the container during a drag gesture removes
\* the dragged element from the document; its dragend listener stays attached.
Detach == IF dragSource = "attached" THEN "detached" ELSE dragSource

\* generateButton 'click' listener, up to the await.
GenerateClick(topicValue) ==
  /\ UserIdle /\ ~generateDisabled
  /\ LET topic == Trim(topicValue) IN
     IF topic = <<>>
     THEN /\ Handled("emptyTopic", [St EXCEPT !.container = <<>>], TRUE)
          /\ UNCHANGED <<generateDisabled, inFlight, hist>>
     ELSE /\ Handled("generate",
                     updateUndoButtonState(
                       [St EXCEPT !.container = <<>>, !.previousState = <<>>]),
                     TRUE)
          /\ generateDisabled' = TRUE
          /\ inFlight' = inFlight + 1
          /\ hist' = Triggered(hist)
  /\ UNCHANGED <<dragSource, typed>>

\* The try block after the await, given result?.text ?? ''.
generated(s, responseText) ==
  LET flashcards == ParseResponse(responseText) IN
  IF responseText # <<>> /\ Len(flashcards) > 0
  THEN saveFlashcards(displayFlashcards(s, flashcards), flashcards)
  ELSE s

\* The request resolves: the rest of the try block, then finally.
GenerateResolve(responseText) ==
  /\ inFlight > 0
  /\ LET s == generated(St, responseText)
         replaced == s.setItemCalls > 0
     IN /\ Handled(IF replaced THEN "resolve" ELSE "noCards", s, TRUE)
        /\ dragSource' = IF replaced THEN Detach ELSE dragSource
        /\ hist' = IF replaced THEN Generated(hist) ELSE hist
  /\ generateDisabled' = FALSE
  /\ inFlight' = inFlight - 1
  /\ UNCHANGED typed

\* A variant of the failure path that skips the finally block.
GenerateRejectNoFinally ==
  /\ inFlight > 0
  /\ Handled("reject", [St EXCEPT !.container = <<>>], TRUE)
  /\ dragSource' = Detach
  /\ inFlight' = inFlight - 1
  /\ UNCHANGED <<generateDisabled, typed, hist>>

\* A variant of the failure path that also empties the list and stores it.
GenerateRejectClearsList ==
  /\ inFlight > 0
  /\ Handled("reject", saveFlashcards(displayFlashcards(St, <<>>), <<>>), TRUE)
  /\ dragSource' = Detach
  /\ generateDisabled' = FALSE
  /\ inFlight' = inFlight - 1
  /\ UNCHANGED <<typed, hist>>

\* The request fails: the catch block, then finally.
GenerateReject ==
  /\ inFlight > 0
  /\ Handled("reject", [St EXCEPT !.container = <<>>], TRUE)
  /\ dragSource' = Detach
  /\ generateDisabled' = FALSE
  /\ inFlight' = inFlight - 1
  /\ UNCHANGED <<typed, hist>>

\* The body of the deleteButton 'click' listener, confirm() accepted.
deleteCard(s, index) ==
  LET s1 == savePreviousState(s)
      updatedFlashcards == FilterOutIndices(s1.currentFlashcards, {index})
  IN displayFlashcards(saveFlashcards(s1, updatedFlashcards), updatedFlashcards)

\* deleteButton 'click' listener of the displayed element at DOM position
\* pos (an element with class hidden cannot be clicked or focused).
DeleteClick(pos, confirmed) ==
  /\ UserIdle /\ pos \in 1..Len(container) /\ ~container[pos].hidden
  /\ LET index == container[pos].index IN
     /\ Handled("delete", deleteCard(St, index), confirmed)
     /\ hist' = IF confirmed
                THEN Picks(Destroyed(hist),
                           hist.picked \ {currentFlashcards[index + 1]})
                ELSE hist
  /\ UNCHANGED <<generateDisabled, inFlight, dragSource, typed>>

\* The history of a commit of the element at DOM position pos, given the
\* state it produced.
Committed(pos, s) ==
  LET index == container[pos].index
      old == currentFlashcards[index + 1]
      new == s.currentFlashcards[index + 1]
  IN IF s.setItemCalls > 0
     THEN Picks(Destroyed(hist),
                IF old \in hist.picked
                THEN (hist.picked \ {old}) \cup {new} ELSE hist.picked)
     ELSE hist

\* editButton 'click' listener of the displayed element at DOM position pos.
EditClick(pos) ==
  /\ NoDrag /\ pos \in 1..Len(container) /\ NoEditBut(pos)
  /\ ~container[pos].hidden
  /\ LET el == container[pos] IN
     IF el.editing
     THEN LET s == saveAndEndEditing(St, pos) IN
          /\ Handled("commit", s, TRUE)
          /\ hist' = Committed(pos, s)
     ELSE /\ Handled("edit",
                     [St EXCEPT !.container[pos] =
                        [@ EXCEPT !.editing = TRUE,
                                  !.originalCardState =
                                    <<Card(el.flashcard.term, el.flashcard.definition)>>]],
                     TRUE)
          /\ hist' = hist
  /\ UNCHANGED <<generateDisabled, inFlight, dragSource, typed>>

\* The user replaces the text of termDiv or definitionDiv of a card in edit mode.
TypeText(pos, field, text) ==
  /\ NoDrag /\ pos \in 1..Len(container) /\ container[pos].editing
  /\ typed < MaxTyping
  /\ container[pos][field] # text
  /\ Handled("type", [St EXCEPT !.container[pos][field] = text], TRUE)
  /\ typed' = typed + 1
  /\ UNCHANGED <<generateDisabled, inFlight, dragSource, hist>>

\* keydown Enter in termDiv or definitionDiv, or the timer set by their blur.
CommitKey(pos) ==
  /\ NoDrag /\ pos \in 1..Len(container) /\ NoEditBut(pos)
  /\ LET s == saveAndEndEditing(St, pos) IN
     /\ Handled("commit", s, container[pos].editing)
     /\ hist' = Committed(pos, s)
  /\ UNCHANGED <<generateDisabled, inFlight, dragSource, typed>>

\* keydown Escape in termDiv or definitionDiv.
EscapeKey(pos) ==
  /\ NoDrag /\ pos \in 1..Len(container) /\ NoEditBut(pos)
  /\ Handled("cancel", cancelEditing(St, pos), container[pos].originalCardState # <<>>)
  /\ UNCHANGED <<generateDisabled, inFlight, dragSource, typed, hist>>

\* cardDiv 'click' listener (viaKey FALSE) or its keydown Enter/Space listener
\* (viaKey TRUE) of a displayed element: select in multi-select mode, else flip the card.  The flipped
\* class is presentation only and is not part of the state.
CardActivate(pos, viaKey) ==
  /\ NoDrag /\ pos \in 1..Len(container) /\ NoEditBut(pos)
  /\ ~container[pos].hidden
  /\ LET el == container[pos]
         runs == ~(viaKey /\ el.editing)
         toggles == runs /\ isMultiSelectMode
         card == currentFlashcards[el.index + 1]
     IN /\ Handled("activate", toggleCardSelection(St, el.index), toggles)
        /\ hist' = IF toggles /\ el.index + 1 <= Len(container)
                   THEN Picks(hist, IF el.index \in selectedCards
                                    THEN hist.picked \ {card}
                                    ELSE hist.picked \cup {card})
                   ELSE hist
  /\ UNCHANGED <<generateDisabled, inFlight, dragSource, typed>>

\* cardDiv 'dragstart' listener (and the timer it sets) of a draggable,
\* displayed element.
DragStart(pos) ==
  /\ UserIdle /\ pos \in 1..Len(container)
  /\ container[pos].draggable /\ ~container[pos].hidden
  /\ Handled("dragstart", [St EXCEPT !.container[pos].dragging = TRUE], TRUE)
  /\ dragSource' = "attached"
  /\ UNCHANGED <<generateDisabled, inFlight, typed, hist>>

\* The DOM position of the element with class dragging.
DraggingPos == CHOOSE d \in 1..Len(container) : container[d].dragging

\* flashcardsContainer 'dragover' listener.  after is the DOM position of the
\* element getDragAfterElement returns for the pointer's y (one of the
\* displayed elements that is not being dragged), or 0 for null.
DragOver(after) ==
  /\ dragSource = "attached"
  /\ after \in 0..Len(container)
  /\ after # 0 => ~container[after].dragging /\ ~container[after].hidden
  /\ LET d == DraggingPos
         rest == SubSeq(container, 1, d - 1) \o SubSeq(container, d + 1, Len(container))
         at == IF after > d THEN after - 1 ELSE after
         moved == IF after = 0
                  THEN Append(rest, container[d])
                  ELSE SubSeq(rest, 1, at - 1) \o <<container[d]>>
                         \o SubSeq(rest, at, Len(rest))
     IN Handled("dragover", [St EXCEPT !.container = moved], moved # container)
  /\ UNCHANGED <<generateDisabled, inFlight, dragSource, typed, hist>>

\* cardDiv 'dragend' listener of the dragged element, in the document or not.
DragEnd ==
  /\ dragSource # "none"
  /\ Handled("dragend", updateOrderAndSave(St), TRUE)
  /\ dragSource' = "none"
  /\ hist' = Destroyed(hist)
  /\ UNCHANGED <<generateDisabled, inFlight, typed>>

\* The browser ends the gesture of a removed element without a dragend event.
DragEndLost ==
  /\ dragSource = "detached"
  /\ Handled("dragcancel", St, TRUE)
  /\ dragSource' = "none"
  /\ UNCHANGED <<generateDisabled, inFlight, typed, hist>>

Positions == 1..Len(container)

Next ==
  \/ \E value \in Queries : SearchInput(value)
  \/ UndoClick
  \/ SelectClick
  \/ \E confirmed \in BOOLEAN : DeleteSelectedClick(confirmed)
  \/ \E topicValue \in Topics : GenerateClick(topicValue)
  \/ \E responseText \in Responses : GenerateResolve(responseText)
  \/ GenerateReject
  \/ \E pos \in Positions, confirmed \in BOOLEAN : DeleteClick(pos, confirmed)
  \/ \E pos \in Positions : EditClick(pos)
  \/ \E pos \in Positions, field \in {"term", "definition"}, text \in EditTexts :
       TypeText(pos, field, text)
  \/ \E pos \in Positions : CommitKey(pos)
  \/ \E pos \in Positions : EscapeKey(pos)
  \/ \E pos \in Positions, viaKey \in BOOLEAN : CardActivate(pos, viaKey)
  \/ \E pos \in Positions : DragStart(pos)
  \/ \E after \in 0..Len(container) : DragOver(after)
  \/ DragEnd
  \/ DragEndLost

Spec == Init /\ [][Next]_vars
SpecUndoHistory == InitUndoHistory /\ [][Next]_vars
SpecGenerationHistory == InitGenerationHistory /\ [][Next]_vars
SpecSnapshotHistory == InitSnapshotHistory /\ [][Next]_vars
SpecPickHistory == InitPickHistory /\ [][Next]_vars

\* ====================================================== the parser alone
\* All strings over the characters chars of length at most n.
StringsUpTo(chars, n) == UNION {[1..k -> chars] : k \in 0..n}

\* The response texts handed to the parser.
ParseTexts == StringsUpTo({"a", COLON, SP, NL}, MaxTextLen)

\* The terms and definitions of the pairs a response is written from: plain,
\* with an inner space, with a colon at the end, at the start, with a
\* newline, empty.
Fields ==
  { <<"a">>, <<"b", SP, "a">>, <<"a", COLON>>, <<COLON, "a">>, <<"a", NL, "b">>, <<>> }

\* The lists of pairs a response is written from.
PairLists == UNION {[1..k -> [term : Fields, definition : Fields]] : k \in 0..MaxPairs}

\* The text a list of pairs is written as: one line "term: definition" per
\* pair, the format the prompt asks the service for.
Serialize(pairs) ==
  LET Line(i) == pairs[i].term \o <<COLON, SP>> \o pairs[i].definition
      Upto[n \in 0..Len(pairs)] ==
        IF n = 0 THEN <<>>
        ELSE IF n = 1 THEN Line(1)
        ELSE Upto[n - 1] \o <<NL>> \o Line(n)
  IN Upto[Len(pairs)]

\* A response text arrives: any text, or the text of a list of pairs.
InitParse ==
  /\ InitTracking({}, {<<>>}) /\ FilterIdle
  /\ pCards = <<>>
  /\ \/ pPairs = <<>> /\ pText \in ParseTexts
     \/ \E pairs \in PairLists : pPairs = <<pairs>> /\ pText = Serialize(pairs)

\* The response text is parsed as the generate handler parses it.
Parse ==
  /\ pCards = <<>>
  /\ pCards' = <<ParseResponse(pText)>>
  /\ UNCHANGED <<progVars, pText, pPairs, filterVars>>

NextParse == Parse

SpecParse == InitParse /\ [][NextParse]_vars

\* ====================================================== the filter alone
\* The cards and the queries handed to the filter.
FilterCards ==
  [term : StringsUpTo({"a", "B"}, MaxCardText),
   definition : StringsUpTo({"a", "B"}, MaxCardText)]
FilterQueries == StringsUpTo({"A", "b", SP, TAB}, MaxQueryLen)

InitFilter ==
  /\ InitTracking({}, {<<>>}) /\ ParseIdle
  /\ fCard \in FilterCards
  /\ fQuery \in FilterQueries
  /\ fVisible = <<>>

\* The filter decides the visibility of the card for the query.
ApplyFilter ==
  /\ fVisible = <<>>
  /\ fVisible' = <<IsVisible(fCard, fQuery)>>
  /\ UNCHANGED <<progVars, parseVars, fCard, fQuery>>

NextFilter == ApplyFilter

SpecFilter == InitFilter /\ [][NextFilter]_vars

\* ======================================================= the load alone
\* What a stored array may hold: two well-formed cards, an object without a
\* definition, an object without a term, a number.
StoredElements ==
  { Card(<<"a">>, <<"b">>), Card(<<"b">>, <<"c">>),
    [term |-> <<"a">>], [definition |-> <<"b">>], [number |-> 1] }

\* What localStorage may hold for the key when the page is opened: nothing,
\* the text of an array, of an object, of a number, or a text that is not
\* JSON.
LoadItems ==
  {<<>>, <<Unparseable>>, <<[value |-> "object"]>>, <<[value |-> "number"]>>}
    \cup {<<Stringify(array)>> :
            array \in UNION {[1..k -> StoredElements] : k \in 0..MaxStored}}

\* The page is opened: the listeners are attached, the initialization code
\* has not run yet.
InitLoad ==
  /\ \E item \in LoadItems, markupHides \in BOOLEAN :
       LET s == Loading(item, markupHides)
       IN /\ currentFlashcards = s.currentFlashcards
          /\ previousState = s.previousState
          /\ isMultiSelectMode = s.isMultiSelectMode
          /\ selectedCards = s.selectedCards
          /\ container = s.container
          /\ searchBar = s.searchBar
          /\ flashcardCounter = s.flashcardCounter
          /\ controlsShown = s.controlsShown
          /\ storage = s.storage
          /\ undoDisabled = s.undoDisabled
          /\ deleteSelectedDisabled = s.deleteSelectedDisabled
  /\ generateDisabled = FALSE
  /\ inFlight = 0
  /\ dragSource = "none"
  /\ typed = 0
  /\ last = [op |-> "open", setItemCalls |-> 0]
  /\ hist = NoHistory
  /\ tracked = {}
  /\ ParseIdle /\ FilterIdle

\* The initialization code at the end of the module runs.
Startup ==
  /\ last.op = "open"
  /\ Handled("init", AppInitialization(St), TRUE)
  /\ UNCHANGED <<generateDisabled, inFlight, dragSource, typed, hist>>

NextLoad == Startup

SpecLoad == InitLoad /\ [][NextLoad]_vars

\* =========================================================== properties
\* The elements of a list.
Range(list) == {list[i] : i \in 1..Len(list)}

\* How often x occurs in a list.
Count(list, x) == Cardinality({i \in 1..Len(list) : list[i] = x})

\* Two lists hold the same multiset of cards.
SameCards(a, b) ==
  /\ Len(a) = Len(b)
  /\ \A x \in Range(a) \cup Range(b) : Count(a, x) = Count(b, x)

\* The DOM positions of the cards in edit mode.
Editing == {pos \in 1..Len(container) : container[pos].editing}

\* Every element carries the index of a card of the list, so no read of the
\* list by a listener is out of range.
IndexInRange ==
  \A pos \in 1..Len(container) : container[pos].index < Len(currentFlashcards)

\* C1: undo is single-slot.  After two or more destructive operations with no
\* undo click between them, an undo click sets the list to the list as it was
\* just before the latest of them.
C1_UndoSingleSlot ==
  [][(last'.op = "undo" /\ hist.ops >= 2) => currentFlashcards' = hist.before[1]]_vars

\* An undo click has followed two destructive operations and changed the list.
C1_Witness ==
  /\ last.op = "undo" /\ hist.undone = 2
  /\ storage # <<>> /\ Parseable(storage[1]) /\ Len(storage[1].json) = 1

\* C2: undo is one-shot.  An undo click with no snapshot changes neither the
\* list, the stored list, the selection nor the mode; with a snapshot it makes
\* the snapshot the list, stores it and empties the slot, which disables the
\* button, so that an undo click right after it finds no snapshot.
C2_UndoOneShot ==
  [][last'.op = "undo" =>
       IF previousState = <<>>
       THEN UNCHANGED <<currentFlashcards, storage, selectedCards,
                        isMultiSelectMode, previousState>>
       ELSE /\ currentFlashcards' = previousState[1]
            /\ storage' = <<Stringify(previousState[1])>>
            /\ previousState' = <<>>
            /\ undoDisabled']_vars

\* An undo click has restored and stored a snapshot that differs from the
\* list it replaced, and left the slot empty.
C2_Witness ==
  /\ last = [op |-> "undo", setItemCalls |-> 1]
  /\ previousState = <<>> /\ undoDisabled
  /\ storage = <<Stringify(currentFlashcards)>>
  /\ Len(currentFlashcards) = 2

\* C3: batch delete removes exactly the selected set.  A confirmed batch
\* delete with a non-empty set of cards picked by the user leaves the list
\* without exactly those cards, the others in their order, multi-select mode
\* off and the selection empty, whatever happened since the cards were picked.
C3_BatchDeleteRemovesPicked ==
  [][(/\ last'.op = "deleteSelected"
      /\ hist.picked # {}
      /\ \A x \in Range(currentFlashcards) : Count(currentFlashcards, x) = 1)
     => /\ currentFlashcards' =
             SelectSeq(currentFlashcards, LAMBDA card : card \notin hist.picked)
        /\ ~isMultiSelectMode'
        /\ selectedCards' = {}]_vars

\* C4: reorder is a pure permutation.  The list a dragend leaves holds the
\* same multiset of cards as the list it found.
C4_ReorderIsPermutation ==
  [][last'.op = "dragend" => SameCards(currentFlashcards', currentFlashcards)]_vars

\* C5: edit no-op guard.  A commit of the card in edit mode whose trimmed text
\* equals the card of the list leaves the snapshot, the list and the stored
\* item alone and writes nothing; any other commit snapshots the list as it
\* was, replaces the card at that index only, and writes the result once.
C5_EditNoOpGuard ==
  [][last'.op = "commit" =>
       \A pos \in Editing :
         LET i == container[pos].index + 1
             new == Card(Trim(container[pos].term), Trim(container[pos].definition))
         IN IF new = currentFlashcards[i]
            THEN /\ UNCHANGED <<previousState, currentFlashcards, storage>>
                 /\ last'.setItemCalls = 0
            ELSE /\ previousState' = <<currentFlashcards>>
                 /\ currentFlashcards' = [currentFlashcards EXCEPT ![i] = new]
                 /\ storage' = <<Stringify(currentFlashcards')>>
                 /\ last'.setItemCalls = 1]_vars

\* A commit has written nothing although the text left on the card differs
\* from the card of the list (by untrimmed whitespace only).
C5_Witness ==
  /\ last = [op |-> "commit", setItemCalls |-> 0]
  /\ \E pos \in 1..Len(container) :
       /\ container[pos].term # currentFlashcards[container[pos].index + 1].term
       /\ Trim(container[pos].term) = currentFlashcards[container[pos].index + 1].term

\* C9: a generation is not undoable.  Once a generation has replaced the list
\* and no destructive operation has followed, an undo click leaves the list as
\* it is.
C9_GenerationNotUndoable ==
  [][(last'.op = "undo" /\ hist.freshGeneration)
     => currentFlashcards' = currentFlashcards]_vars

\* C10: the generate button is disabled exactly while a request is in flight,
\* and at most one request is in flight.
C10_DisabledWhileInFlight ==
  /\ generateDisabled <=> inFlight > 0
  /\ inFlight <= 1

\* A request has failed and left the button enabled with nothing in flight.
C10_Witness ==
  last.op = "reject" /\ ~generateDisabled /\ inFlight = 0

\* ------------------------------------------------- the filter's properties
\* word occurs in text.
IsSubstring(word, text) ==
  \E i \in 1..(Len(text) + 1) :
    /\ i + Len(word) - 1 <= Len(text)
    /\ \A k \in 1..Len(word) : text[i + k - 1] = word[k]

\* The tokens of a query: its maximal runs of characters outside seps.
TokensBy(q, seps) ==
  {SubSeq(q, i, j) : <<i, j>> \in
     {ij \in (1..Len(q)) \X (1..Len(q)) :
        /\ ij[1] <= ij[2]
        /\ \A k \in ij[1]..ij[2] : q[k] \notin seps
        /\ ij[1] = 1 \/ q[ij[1] - 1] \in seps
        /\ ij[2] = Len(q) \/ q[ij[2] + 1] \in seps}}

\* C6 as stated: a card is visible iff every whitespace-separated token of the
\* trimmed, lower-cased query is a substring of the lower-cased concatenation
\* of its term and definition.
C6_VisibleIffTokensInConcatenation ==
  fVisible # <<>> =>
    (fVisible[1] <=>
       \A t \in TokensBy(ToLowerCase(Trim(fQuery)), {SP, TAB, NL}) :
         IsSubstring(t, ToLowerCase(fCard.term \o fCard.definition)))

\* C6: a card is visible iff every space-separated token of the trimmed,
\* lower-cased query is a substring of the lower-cased text made of its term,
\* one space and its definition; an empty query has no token.
C6_FilterVisibility ==
  fVisible # <<>> =>
    (fVisible[1] <=>
       \A t \in TokensBy(ToLowerCase(Trim(fQuery)), {SP}) :
         IsSubstring(t, ToLowerCase(fCard.term \o <<SP>> \o fCard.definition)))

\* The filter has hidden a card that holds one token of a two-token query but
\* not the other.
C6_Witness ==
  /\ fVisible = <<FALSE>>
  /\ LET tokens == TokensBy(ToLowerCase(Trim(fQuery)), {SP})
         text == ToLowerCase(fCard.term \o <<SP>> \o fCard.definition)
     IN /\ Cardinality(tokens) = 2
        /\ \E t \in tokens : IsSubstring(t, text)

\* ------------------------------------------------- the parser's properties
\* The position of the first c in s, 0 when there is none.
FirstIndex(s, c) ==
  IF \E i \in 1..Len(s) : s[i] = c
  THEN CHOOSE i \in 1..Len(s) : s[i] = c /\ \A j \in 1..(i - 1) : s[j] # c
  ELSE 0

RECURSIVE LinesOf(_)
\* The lines of a text, in order.
LinesOf(text) ==
  LET k == FirstIndex(text, NL) IN
  IF k = 0 THEN <<text>>
  ELSE <<SubSeq(text, 1, k - 1)>> \o LinesOf(SubSeq(text, k + 1, Len(text)))

\* The card a line stands for: the trimmed text before its first colon and
\* the trimmed text after it, when there is a colon and both are non-empty.
ExpectedCard(line) ==
  LET k == FirstIndex(line, COLON) IN
  IF k = 0 THEN <<>>
  ELSE LET head == Trim(SubSeq(line, 1, k - 1))
           rest == Trim(SubSeq(line, k + 1, Len(line)))
       IN IF head # <<>> /\ rest # <<>> THEN <<Card(head, rest)>> ELSE <<>>

RECURSIVE ExpectedCards(_)
ExpectedCards(lines) ==
  IF lines = <<>> THEN <<>>
  ELSE ExpectedCard(Head(lines)) \o ExpectedCards(Tail(lines))

\* A valid field of a pair: non-empty, trimmed, without a newline.
ValidField(f) == f # <<>> /\ Trim(f) = f /\ NL \notin Range(f)

\* A valid pair as C7 describes it.
ValidPair(pair) ==
  /\ ValidField(pair.term) /\ ValidField(pair.definition)
  /\ pair.definition[Len(pair.definition)] # COLON

\* C7 as stated: the text written from a list of valid pairs parses to that
\* list.
C7_RoundTripOfValidPairs ==
  (/\ pCards # <<>> /\ pPairs # <<>>
   /\ \A i \in 1..Len(pPairs[1]) : ValidPair(pPairs[1][i]))
  => pCards[1] = pPairs[1]

\* C7: the text written from a list of valid pairs whose terms hold no colon
\* parses to that list.
C7_ParserRoundTrip ==
  (/\ pCards # <<>> /\ pPairs # <<>>
   /\ \A i \in 1..Len(pPairs[1]) :
        ValidPair(pPairs[1][i]) /\ COLON \notin Range(pPairs[1][i].term))
  => pCards[1] = pPairs[1]

\* The text of two valid pairs, one with a colon in its definition, has been
\* parsed.
C7_Witness ==
  /\ pCards # <<>> /\ pPairs # <<>>
  /\ Len(pPairs[1]) = 2
  /\ \A i \in 1..2 : ValidPair(pPairs[1][i]) /\ COLON \notin Range(pPairs[1][i].term)
  /\ \E i \in 1..2 : COLON \in Range(pPairs[1][i].definition)

\* C8: the parser's result is, line by line and in line order, the card of
\* each line that has a colon, a non-empty trimmed text before the first colon
\* and a non-empty trimmed text after it (later colons kept); other lines
\* give nothing.
C8_ParserRobustness ==
  pCards # <<>> => pCards[1] = ExpectedCards(LinesOf(pText))

\* A text of an invalid line followed by a valid line with two colons has
\* been parsed into one card.
C8_Witness ==
  /\ pCards # <<>> /\ pPairs = <<>>
  /\ Len(LinesOf(pText)) = 2
  /\ ExpectedCard(LinesOf(pText)[1]) = <<>>
  /\ Len(pCards[1]) = 1
  /\ COLON \in Range(pCards[1][1].definition)

\* ------------------------------------------- generation outcomes, load
\* C11: a request that fails, answers with empty text or answers with no
\* valid card is handled without changing the list or the stored list.
C11_FailedGenerationKeepsCards ==
  [][last'.op \in {"reject", "noCards"} =>
       UNCHANGED <<currentFlashcards, storage>>]_vars

\* A failed request has been handled: the display is empty, the list and the
\* stored list still hold the cards.
C11_Witness ==
  /\ last.op = "reject"
  /\ container = <<>>
  /\ Len(currentFlashcards) > 0
  /\ storage = <<Stringify(currentFlashcards)>>

\* C12: a generate click with an empty or whitespace-only topic starts no
\* request and leaves the list, the snapshot, the selection, the mode, the
\* button's enabled state and the rendered cards as they were.
C12_EmptyTopicNoStateChange ==
  [][last'.op = "emptyTopic" =>
       UNCHANGED <<currentFlashcards, previousState, selectedCards,
                   isMultiSelectMode, generateDisabled, inFlight, container>>]_vars

\* A well-formed card: an object with exactly a term and a definition.
WellFormedCard(value) == DOMAIN value = {"term", "definition"}

\* The stored item is not the text of an array of well-formed cards.
Malformed(item) ==
  \/ ~Parseable(item)
  \/ "json" \notin DOMAIN item
  \/ \E i \in 1..Len(item.json) : ~WellFormedCard(item.json[i])

\* C13: when the stored entry is unparseable or is not an array of cards, the
\* initialization leaves the list and the display empty and removes the
\* entry from storage.
C13_MalformedLoadDiscarded ==
  [][(last'.op = "init" /\ storage # <<>> /\ Malformed(storage[1])) =>
       /\ currentFlashcards' = <<>>
       /\ container' = <<>>
       /\ storage' = <<>>]_vars

\* -------------------------------------------------------- invariants
\* C14: the undo snapshot is null exactly when no destructive operation
\* (changing edit, single delete, batch delete, reorder commit) has occurred
\* since the last undo click and the last accepted generate click.
C14_SnapshotInvariant ==
  (previousState = <<>>) <=> ~hist.dirty

\* A reorder commit has left a snapshot.
C14_Witness ==
  /\ last.op = "dragend"
  /\ hist.dirty
  /\ previousState # <<>>

\* C15: after every operation that changes the list other than the batch
\* delete (single delete, undo, reorder commit, successful generation) the
\* selection is empty or holds only indices below the new list length that
\* denote cards the user picked.
C15_NoStaleSelection ==
  [][last'.op \in {"delete", "undo", "dragend", "resolve"} =>
       \/ selectedCards' = {}
       \/ \A index \in selectedCards' :
            /\ index < Len(currentFlashcards')
            /\ currentFlashcards'[index + 1] \in hist'.picked]_vars

NonEmptyTrimmed(text) == text # <<>> /\ Trim(text) = text
ValidCard(card) ==
  /\ DOMAIN card = {"term", "definition"}
  /\ NonEmptyTrimmed(card.term)
  /\ NonEmptyTrimmed(card.definition)
ValidList(list) == \A i \in 1..Len(list) : ValidCard(list[i])

\* C16: in every reachable state every card of the list and of the undo
\* snapshot has a non-empty, trimmed term and a non-empty, trimmed definition.
C16_CardValidity ==
  /\ ValidList(currentFlashcards)
  /\ previousState # <<>> => ValidList(previousState[1])

\* The positions of the cards displayed as visible, and the filter result.
Displayed(elements) == {i \in 1..Len(elements) : ~elements[i].hidden}
FilterResult(list, query) == {i \in 1..Len(list) : IsVisible(list[i], query)}

\* C17: after every operation that re-renders the list (single delete, batch
\* delete, multi-select toggle, undo, reorder commit, generation) and after
\* every query change, the cards displayed as visible are the filter result
\* for the current query, and the counter shows their number out of the
\* length of the list.
C17_FilterAndCounterInSync ==
  [][last'.op \in {"delete", "deleteSelected", "select", "undo", "dragend",
                   "resolve", "search"} =>
       /\ Displayed(container') = FilterResult(currentFlashcards', searchBar')
       /\ Len(currentFlashcards') > 0 =>
            flashcardCounter' =
              <<<<Cardinality(FilterResult(currentFlashcards', searchBar')),
                  Len(currentFlashcards')>>>>]_vars

\* The cards as the container shows them.
Rendered(elements) ==
  [i \in 1..Len(elements) |-> Card(elements[i].term, elements[i].definition)]

\* C18: after every handler (the generate click with a request pending, the
\* empty-topic click and a generation failure included) that leaves no card
\* in edit mode, the rendered cards have the length, order and texts of the
\* list.
C18_DisplayEqualsList ==
  [][(\A i \in 1..Len(container') : ~container'[i].editing)
     => Rendered(container') = currentFlashcards']_vars

\* C19: whenever multi-select mode is inactive the selection is empty;
\* turning the mode off clears the selection, no step taken while the mode is
\* and stays inactive (a card activation among them) changes the selection,
\* and every reorder commit runs with an empty selection.
C19_SelectionOnlyInMultiSelectMode ==
  /\ [](~isMultiSelectMode => selectedCards = {})
  /\ [][/\ (last'.op = "select" /\ ~isMultiSelectMode') => selectedCards' = {}
        /\ (~isMultiSelectMode /\ ~isMultiSelectMode') =>
              selectedCards' = selectedCards
        /\ last'.op = "dragend" => selectedCards = {}]_vars

\* The mode has just been turned off and the cards are shown again without
\* a selection.
C19_Witness ==
  /\ last.op = "select"
  /\ ~isMultiSelectMode
  /\ selectedCards = {}
  /\ Len(container) > 0

\* The handlers that replace the list when they take effect; an undo takes
\* effect when there is a snapshot.
ListChangingOps ==
  {"resolve", "delete", "deleteSelected", "dragend"} \cup
  (IF previousState # <<>> THEN {"undo"} ELSE {})

\* C20: after every handler that changes the list (successful generation,
\* changing edit, single delete, batch delete, reorder commit, undo) the
\* stored entry is the serialization of the list; the other handlers, and an
\* edit commit that changes nothing, write no card list.
C20_PersistedEqualsList ==
  [][/\ (\/ last'.op \in ListChangingOps
         \/ currentFlashcards' # currentFlashcards)
        => storage' = <<Stringify(currentFlashcards')>>
     /\ (/\ last'.op \notin ListChangingOps
         /\ currentFlashcards' = currentFlashcards)
        => last'.setItemCalls = 0 /\ storage' = storage]_vars

\* A single delete has written the shortened list.
C20_Witness ==
  /\ last.op = "delete"
  /\ last.setItemCalls = 1
  /\ Len(currentFlashcards) = 1
  /\ storage = <<Stringify(currentFlashcards)>>

\* -------------------------------------------------------- cancelling an edit
\* C21: cancelling an edit with Escape returns the card to viewing, leaves
\* the list, the undo snapshot and the stored entry unchanged, and leaves the
\* displayed term and definition equal to the card of the list at that index,
\* whatever edits of that card were saved since the last render.
C21_CancelRestoresCanonical ==
  [][last'.op = "cancel" =>
       /\ UNCHANGED <<currentFlashcards, previousState, storage>>
       /\ \A pos \in 1..Len(container) :
            (container[pos].editing /\ container[pos].index < Len(currentFlashcards)) =>
              /\ ~container'[pos].editing
              /\ container'[pos].term =
                   TextContent(currentFlashcards'[container[pos].index + 1], "term")
              /\ container'[pos].definition =
                   TextContent(currentFlashcards'[container[pos].index + 1],
                               "definition")]_vars

====
